---- MODULE Spec2Model ----
(***************************************************************************)
(* Model of one_model_update.py: a script that fetches one web page,       *)
(* extracts an optional "Last update:" date and the page's tables,         *)
(* fingerprints the combined tables, compares both against three state     *)
(* files and, on a change, rewrites the files and sends an email.          *)
(*                                                                         *)
(* Conventions.  An optional value (Python None or a value; a file that    *)
(* does not exist or its text) is a sequence of length 0 or 1.  Text that  *)
(* the program formats and parses (the date file) is a sequence of         *)
(* one-character strings.  The six scraped cells of a table row are one    *)
(* natural number (0 is the header row's cells).  A DataFrame is a         *)
(* sequence of records [index, cells, Level].  md5 is taken to be          *)
(* collision free: a digest is the array of row hashes it was fed, and a   *)
(* row hash is the tuple of everything hash_pandas_object mixes into it.   *)
(* Local file reads and writes are taken to succeed; the failures          *)
(* modelled are the network ones (HTTP fetch, SMTP) and the exceptions     *)
(* the script's own statements raise on its inputs.                        *)
(***************************************************************************)
EXTENDS Integers, Sequences, FiniteSets, TLC

VARIABLES
    soup,                \* the page the current (or last) run fetched
    dateFile,            \* last_update_date.txt
    hashFile,            \* last_data_hash.txt
    csvFile,             \* latest_combined.csv
    pc,                  \* position of main()
    latest_update_date,  \* main's local
    combined_df,         \* main's local
    prev_date,           \* main's local
    prev_hash,           \* main's local
    current_hash,        \* main's local
    update_detected,     \* main's local
    messages,            \* main's local
    notified,            \* "none", or how send_email_alert ended in this run
    outcome,             \* how the run ended, once pc = "done"
    fetched,             \* history: some run has fetched soup
    repeat,              \* history: this run fetched the same page as the previous fetch
    filesAtStart         \* history: the three files as this run found them

vars == <<soup, dateFile, hashFile, csvFile, pc, latest_update_date, combined_df,
          prev_date, prev_hash, current_hash, update_detected, messages,
          notified, outcome, fetched, repeat, filesAtStart>>

files == <<dateFile, hashFile, csvFile>>
locals == <<latest_update_date, combined_df, prev_date, prev_hash, current_hash,
            update_detected, messages>>

None == <<>>
Some(x) == <<x>>

\* ---------------------------------------------------------------- bounds
MaxTables == 3       \* tables per page, extraction inputs
MaxRows == 3         \* rows per table (first row included), extraction inputs
MaxRunTables == 2    \* tables per page, pages served to whole runs

\* ---------------------------------------------------------------- configuration
EMAIL_NOTIFICATION == TRUE
columns == <<"Date", "Loc.", "Title", "Company", "Location", "Link">>

\* ---------------------------------------------------------------- dates
DigitChar == <<"0", "1", "2", "3", "4", "5", "6", "7", "8", "9">>
IsDigit(c) == \E n \in 1..10 : DigitChar[n] = c
DigitVal(c) == (CHOOSE n \in 1..10 : DigitChar[n] = c) - 1
Pad2(n) == <<DigitChar[((n \div 10) % 10) + 1], DigitChar[(n % 10) + 1]>>
Pad4(n) == Pad2(n \div 100) \o Pad2(n % 100)
Num(s) == IF Len(s) = 2 THEN 10 * DigitVal(s[1]) + DigitVal(s[2])
          ELSE 1000 * DigitVal(s[1]) + 100 * DigitVal(s[2]) + 10 * DigitVal(s[3]) + DigitVal(s[4])

IsLeap(y) == (y % 4 = 0 /\ y % 100 # 0) \/ y % 400 = 0
DaysInMonth(y, m) ==
    IF m = 2 THEN (IF IsLeap(y) THEN 29 ELSE 28)
    ELSE IF m \in {4, 6, 9, 11} THEN 30 ELSE 31
ValidDate(y, m, d) == m \in 1..12 /\ d \in 1..DaysInMonth(y, m)

\* datetime.strptime(stamp, "%m/%d/%y"): a stamp is the three numbers the
\* regex \d{1,2}/\d{1,2}/\d{2} matched; None stands for ValueError.
Century(yy) == IF yy < 69 THEN 2000 + yy ELSE 1900 + yy
strptime_mdy(stamp) ==
    IF ValidDate(Century(stamp.yy), stamp.m, stamp.d)
    THEN Some([year |-> Century(stamp.yy), month |-> stamp.m, day |-> stamp.d])
    ELSE None

\* update_date.strftime("%Y-%m-%d")
strftime_ymd(d) == Pad4(d.year) \o <<"-">> \o Pad2(d.month) \o <<"-">> \o Pad2(d.day)

\* str.strip()
RECURSIVE lstrip(_)
lstrip(s) == IF s # <<>> /\ Head(s) \in {" ", "\n"} THEN lstrip(Tail(s)) ELSE s
RECURSIVE rstrip(_)
rstrip(s) == IF s # <<>> /\ s[Len(s)] \in {" ", "\n"} THEN rstrip(SubSeq(s, 1, Len(s) - 1)) ELSE s
strip(s) == rstrip(lstrip(s))

\* datetime.strptime(text, "%Y-%m-%d") on zero-padded text; None stands for ValueError.
strptime_ymd(s) ==
    IF /\ Len(s) = 10
       /\ s[5] = "-" /\ s[8] = "-"
       /\ \A i \in {1, 2, 3, 4, 6, 7, 9, 10} : IsDigit(s[i])
       /\ ValidDate(Num(SubSeq(s, 1, 4)), Num(SubSeq(s, 6, 7)), Num(SubSeq(s, 9, 10)))
    THEN Some([year |-> Num(SubSeq(s, 1, 4)), month |-> Num(SubSeq(s, 6, 7)),
               day |-> Num(SubSeq(s, 9, 10))])
    ELSE None

\* ---------------------------------------------------------------- extraction
\* A table of the page: heading is the text of a heading element standing
\* between the previous table and this one (None if there is none), ncols the
\* number of cells per row, rows the cells of its rows, first row included.

\* Lines 46-52: the nearest preceding heading with text, else "Untitled Table i".
RECURSIVE nearest_heading(_, _)
nearest_heading(tables, i) ==
    IF i = 0 THEN None
    ELSE IF tables[i].heading # None THEN tables[i].heading
    ELSE nearest_heading(tables, i - 1)
table_title(tables, i) ==
    IF nearest_heading(tables, i) # None
    THEN <<nearest_heading(tables, i)[1], 0>>
    ELSE <<"Untitled Table", i>>

\* pd.read_html raises on a table without rows; df.columns = columns raises
\* on a column-count mismatch.
parse_fails(t) == t.rows = <<>> \/ t.ncols # Len(columns)

\* Lines 55-58: the frame of one table: row 0 dropped, index reset, Level added.
table_frame(tables, i) ==
    [k \in 1..(Len(tables[i].rows) - 1) |->
        [index |-> k - 1, cells |-> tables[i].rows[k + 1], Level |-> table_title(tables, i)]]

\* Lines 44-62: the loop body's effect on data for table i.
loop_body(data, tables, i) ==
    IF parse_fails(tables[i]) THEN data ELSE data \o table_frame(tables, i)

\* Variant: the first table that fails to parse ends the loop.
RECURSIVE extract_loop_abort(_, _, _)
extract_loop_abort(data, tables, i) ==
    IF i > Len(tables) \/ parse_fails(tables[i]) THEN data
    ELSE extract_loop_abort(data \o table_frame(tables, i), tables, i + 1)

RECURSIVE extract_loop(_, _, _)
extract_loop(data, tables, i) ==
    IF i > Len(tables) THEN data
    ELSE extract_loop(loop_body(data, tables, i), tables, i + 1)

extract_and_combine_tables(page) == extract_loop(<<>>, page.tables, 1)

\* fetch_update_date: the date, or raises when strptime rejects the stamp.
fetch_update_date(page) ==
    IF page.stamp = None THEN [raises |-> FALSE, date |-> None]
    ELSE [raises |-> strptime_mdy(page.stamp[1]) = None, date |-> strptime_mdy(page.stamp[1])]

\* ---------------------------------------------------------------- fingerprint and csv
\* pd.util.hash_pandas_object(df, index=True): one hash per row over the
\* index and the seven columns.
hash_pandas_object(df) == [k \in 1..Len(df) |-> <<df[k].index, df[k].cells, df[k].Level>>]
\* hashlib.md5(...).hexdigest()
md5_hexdigest(values) == [md5 |-> values]
fingerprint(df) == md5_hexdigest(hash_pandas_object(df))

\* data_df.to_csv(COMBINED_CSV_FILE, index=False)
to_csv(df) == [header |-> columns \o <<"Level">>,
               rows |-> [k \in 1..Len(df) |-> <<df[k].cells, df[k].Level>>]]

\* ---------------------------------------------------------------- inputs
SeqsUpTo(S, n) == UNION {[1..k -> S] : k \in 0..n}

\* Stamps a page may carry: none, two valid ones, one that strptime rejects.
Stamps == {None,
           Some([m |-> 1, d |-> 5, yy |-> 25]),
           Some([m |-> 12, d |-> 31, yy |-> 99]),
           Some([m |-> 13, d |-> 1, yy |-> 25])}

\* Tables of the pages served to whole runs: data row 1, data row 2 and both,
\* under one heading, and a table with a seventh column.
RunTables ==
    {[heading |-> Some("Senior"), ncols |-> Len(columns), rows |-> r] :
        r \in {<<0, 1>>, <<0, 2>>, <<0, 1, 2>>}}
    \cup {[heading |-> Some("Senior"), ncols |-> Len(columns) + 1, rows |-> <<0, 1>>]}
RunPages == [stamp : Stamps, tables : SeqsUpTo(RunTables, MaxRunTables)]

\* Tables of the extraction inputs: with or without a heading of their own,
\* six or seven columns, zero to MaxRows rows numbered in order.
ExtractTables ==
    [heading : {None, Some("Senior")},
     ncols : {Len(columns), Len(columns) + 1},
     rows : {[k \in 1..n |-> k - 1] : n \in 0..MaxRows}]
ExtractPages == [stamp : {None}, tables : SeqsUpTo(ExtractTables, MaxTables)]

NoPage == [stamp |-> None, tables |-> <<>>]

\* ---------------------------------------------------------------- main
NoLocals ==
    /\ latest_update_date' = None
    /\ combined_df' = <<>>
    /\ prev_date' = None
    /\ prev_hash' = None
    /\ current_hash' = fingerprint(<<>>)
    /\ update_detected' = FALSE
    /\ messages' = <<>>

Init ==
    /\ soup = NoPage
    /\ dateFile = None /\ hashFile = None /\ csvFile = None
    /\ pc = "idle"
    /\ latest_update_date = None
    /\ combined_df = <<>>
    /\ prev_date = None
    /\ prev_hash = None
    /\ current_hash = fingerprint(<<>>)
    /\ update_detected = FALSE
    /\ messages = <<>>
    /\ notified = "none"
    /\ outcome = "none"
    /\ fetched = FALSE
    /\ repeat = FALSE
    /\ filesAtStart = <<None, None, None>>

\* Lines 115-121: a run starts and requests.get returns page p.
StartRun(p) ==
    /\ pc = "idle"
    /\ soup' = p
    /\ pc' = "fetch_date"
    /\ outcome' = "running"
    /\ fetched' = TRUE
    /\ repeat' = (fetched /\ p = soup)
    /\ filesAtStart' = files
    /\ UNCHANGED <<files, locals, notified>>

\* Line 120: requests.get raises; the run ends before anything else happens.
FetchFails ==
    /\ pc = "idle"
    /\ pc' = "done"
    /\ outcome' = "network_error"
    /\ filesAtStart' = files
    /\ UNCHANGED <<soup, files, locals, notified, fetched, repeat>>

\* Line 123.
FetchUpdateDate ==
    /\ pc = "fetch_date"
    /\ IF fetch_update_date(soup).raises
       THEN /\ pc' = "done"
            /\ outcome' = "date_error"
            /\ UNCHANGED latest_update_date
       ELSE /\ pc' = "extract"
            /\ latest_update_date' = fetch_update_date(soup).date
            /\ UNCHANGED outcome
    /\ UNCHANGED <<soup, files, combined_df, prev_date, prev_hash, current_hash,
                   update_detected, messages, notified, fetched, repeat, filesAtStart>>

\* Lines 124-128.
ExtractTablesStep ==
    /\ pc = "extract"
    /\ combined_df' = extract_and_combine_tables(soup)
    /\ IF combined_df' = <<>>
       THEN pc' = "done" /\ outcome' = "empty"
       ELSE pc' = "load" /\ UNCHANGED outcome
    /\ UNCHANGED <<soup, files, latest_update_date, prev_date, prev_hash, current_hash,
                   update_detected, messages, notified, fetched, repeat, filesAtStart>>

\* load_previous_state, lines 67-80: [raises, last_date, last_hash].
load_previous_state(dfile, hfile) ==
    [raises |-> dfile # None /\ strptime_ymd(strip(dfile[1])) = None,
     last_date |-> IF dfile = None THEN None ELSE strptime_ymd(strip(dfile[1])),
     last_hash |-> hfile]

\* Lines 130-131.
LoadPreviousState ==
    /\ pc = "load"
    /\ IF load_previous_state(dateFile, hashFile).raises
       THEN /\ pc' = "done"
            /\ outcome' = "load_error"
            /\ UNCHANGED <<prev_date, prev_hash, current_hash>>
       ELSE /\ pc' = "compare"
            /\ prev_date' = load_previous_state(dateFile, hashFile).last_date
            /\ prev_hash' = load_previous_state(dateFile, hashFile).last_hash
            /\ current_hash' = fingerprint(combined_df)
            /\ UNCHANGED outcome
    /\ UNCHANGED <<soup, files, latest_update_date, combined_df, update_detected,
                   messages, notified, fetched, repeat, filesAtStart>>

\* Variant: the truthiness test of latest_update_date is left out.
date_changed_any(latest, prev) == latest # prev

\* Line 137: latest_update_date and latest_update_date != prev_date
date_changed(latest, prev) == latest # None /\ latest # prev
\* Line 142: current_hash != prev_hash
hash_changed(cur, prev) == Some(cur) # prev

date_message(prev, latest) == [kind |-> "date", from |-> prev, to |-> latest]
content_message == [kind |-> "content", from |-> None, to |-> None]

\* Lines 133-144: [update_detected, messages].
detect(latest, cur, pdate, phash) ==
    LET m1 == IF date_changed(latest, pdate)
              THEN Append(<<>>, date_message(pdate, latest)) ELSE <<>>
        u1 == IF date_changed(latest, pdate) THEN TRUE ELSE FALSE
        m2 == IF hash_changed(cur, phash) THEN Append(m1, content_message) ELSE m1
        u2 == IF hash_changed(cur, phash) THEN TRUE ELSE u1
    IN [update_detected |-> u2, messages |-> m2]

\* Variant: the save is not guarded by update_detected.
branch_always_save(detected) == "save_date"
\* Variant: the alert is sent before the state is saved.
branch_notify_first(detected) == IF detected THEN "notify" ELSE "done"

\* Line 146: where main goes after the comparison.
branch(detected) == IF detected THEN "save_date" ELSE "done"

\* Lines 133-152.
Compare ==
    /\ pc = "compare"
    /\ update_detected' = detect(latest_update_date, current_hash, prev_date, prev_hash).update_detected
    /\ messages' = detect(latest_update_date, current_hash, prev_date, prev_hash).messages
    /\ pc' = branch(update_detected')
    /\ outcome' = IF pc' = "done" THEN "no_change" ELSE outcome
    /\ UNCHANGED <<soup, files, latest_update_date, combined_df, prev_date, prev_hash,
                   current_hash, notified, fetched, repeat, filesAtStart>>

\* Lines 88-89: open(..., "w") truncates the file, then strftime is called on
\* update_date, which raises AttributeError when the date is None.
SaveDate ==
    /\ pc = "save_date"
    /\ IF latest_update_date = None
       THEN /\ dateFile' = Some(<<>>)
            /\ pc' = "done"
            /\ outcome' = "save_error"
       ELSE /\ dateFile' = Some(strftime_ymd(latest_update_date[1]))
            /\ pc' = "save_csv"
            /\ UNCHANGED outcome
    /\ UNCHANGED <<soup, hashFile, csvFile, locals, notified, fetched, repeat, filesAtStart>>

\* Line 92.
SaveCsv ==
    /\ pc = "save_csv"
    /\ csvFile' = Some(to_csv(combined_df))
    /\ pc' = "save_hash"
    /\ UNCHANGED <<soup, dateFile, hashFile, locals, notified, outcome, fetched, repeat,
                   filesAtStart>>

\* Lines 95-97, and line 149.
SaveHash ==
    /\ pc = "save_hash"
    /\ hashFile' = Some(fingerprint(combined_df))
    /\ pc' = IF EMAIL_NOTIFICATION THEN "notify" ELSE "done"
    /\ outcome' = IF EMAIL_NOTIFICATION THEN outcome ELSE "saved"
    /\ UNCHANGED <<soup, dateFile, csvFile, locals, notified, fetched, repeat,
                   filesAtStart>>

\* Line 150, send_email_alert delivers the message.
NotifySent ==
    /\ pc = "notify"
    /\ notified' = "sent"
    /\ pc' = "done"
    /\ outcome' = "notified"
    /\ UNCHANGED <<soup, files, locals, fetched, repeat, filesAtStart>>

\* Line 150, send_email_alert raises (connection, STARTTLS, login or delivery).
NotifyFails ==
    /\ pc = "notify"
    /\ notified' = "failed"
    /\ pc' = "done"
    /\ outcome' = "notify_error"
    /\ UNCHANGED <<soup, files, locals, fetched, repeat, filesAtStart>>

\* The process exits (line 154 and return, line 128, or an uncaught exception):
\* its locals are gone; the files stay.
Exit ==
    /\ pc = "done"
    /\ pc' = "idle"
    /\ NoLocals
    /\ notified' = "none"
    /\ outcome' = "none"
    /\ repeat' = FALSE
    /\ filesAtStart' = files
    /\ UNCHANGED <<soup, files, fetched>>

Next ==
    \/ \E p \in RunPages : StartRun(p)
    \/ FetchFails
    \/ FetchUpdateDate
    \/ ExtractTablesStep
    \/ LoadPreviousState
    \/ Compare
    \/ SaveDate
    \/ SaveCsv
    \/ SaveHash
    \/ NotifySent
    \/ NotifyFails
    \/ Exit

Spec == Init /\ [][Next]_vars

\* ---------------------------------------------------------------- the detector alone
\* The comparison of lines 133-146 applied to every combination of inputs.
DetectDates == {None} \cup {strptime_mdy(st[1]) : st \in Stamps \ {None}}
DetectFrames == {extract_and_combine_tables(p) : p \in RunPages} \ {<<>>}

InitDetect ==
    /\ soup = NoPage
    /\ dateFile = None /\ hashFile = None /\ csvFile = None
    /\ pc = "compare"
    /\ latest_update_date \in DetectDates
    /\ combined_df \in DetectFrames
    /\ prev_date \in DetectDates
    /\ prev_hash \in {None} \cup {Some(fingerprint(df)) : df \in DetectFrames}
    /\ current_hash = fingerprint(combined_df)
    /\ update_detected = FALSE
    /\ messages = <<>>
    /\ notified = "none"
    /\ outcome = "running"
    /\ fetched = FALSE
    /\ repeat = FALSE
    /\ filesAtStart = <<None, None, None>>

NextDetect == Compare

SpecDetect == InitDetect /\ [][NextDetect]_vars

\* ---------------------------------------------------------------- the extractor alone
\* extract_and_combine_tables applied to pages of up to MaxTables tables.
InitExtract ==
    /\ soup \in ExtractPages
    /\ dateFile = None /\ hashFile = None /\ csvFile = None
    /\ pc = "extract"
    /\ latest_update_date = None
    /\ combined_df = <<>>
    /\ prev_date = None
    /\ prev_hash = None
    /\ current_hash = fingerprint(<<>>)
    /\ update_detected = FALSE
    /\ messages = <<>>
    /\ notified = "none"
    /\ outcome = "running"
    /\ fetched = TRUE
    /\ repeat = FALSE
    /\ filesAtStart = <<None, None, None>>

NextExtract == ExtractTablesStep

SpecExtract == InitExtract /\ [][NextExtract]_vars

\* ---------------------------------------------------------------- properties
\* The three files hold what a run that observed (date, df) and saved it completely wrote.
FilesReflect(date, df) ==
    /\ date # None
    /\ dateFile # None /\ strptime_ymd(strip(dateFile[1])) = date
    /\ csvFile = Some(to_csv(df))
    /\ hashFile = Some(fingerprint(df))

\* The run fetched its page and extracted a non-empty dataset from it.
PastExtraction == outcome \notin {"network_error", "date_error", "empty"}

\* C1: when a run has ended, however it ended, the three files are either
\* all as the run found them or all hold the date, dataset and fingerprint
\* of that run, which detected a change; no file is written or truncated
\* while another keeps an older run's value.
C1_FilesMoveTogether ==
    pc = "done" =>
        \/ files = filesAtStart
        \/ update_detected /\ FilesReflect(latest_update_date, combined_df)

\* C2: a run that fetches the same page as the run before it, with the files
\* as that run left them, ends with "no changes detected", writes nothing
\* and sends nothing.
C2_SecondRunNoChange ==
    (pc = "done" /\ repeat /\ PastExtraction) =>
        /\ outcome = "no_change"
        /\ files = filesAtStart
        /\ notified = "none"

\* C3: a run that starts with none of the three files present and extracts
\* a non-empty dataset detects a change and writes date, dataset and
\* fingerprint, with or without a date on the page.
C3_FirstRunPersistsBaseline ==
    (pc = "done" /\ filesAtStart = <<None, None, None>> /\ PastExtraction) =>
        /\ update_detected
        /\ FilesReflect(latest_update_date, combined_df)

\* C4: after the comparison, update_detected is true exactly when the
\* current date is present and differs from the stored one (absent counts
\* as different) or the current fingerprint differs from the stored one
\* (absent counts as different); the date message is in the report exactly
\* in the first case and the content message exactly in the second, and
\* the report holds nothing else.
C4_ChangeRule ==
    (pc = "save_date" \/ (pc = "done" /\ outcome = "no_change")) =>
        LET dateDiffers == latest_update_date # None /\
                           (prev_date = None \/ prev_date[1] # latest_update_date[1])
            hashDiffers == prev_hash = None \/ prev_hash[1] # current_hash
            hasDate == \E k \in 1..Len(messages) : messages[k].kind = "date"
            hasContent == \E k \in 1..Len(messages) : messages[k].kind = "content"
        IN /\ update_detected <=> (dateDiffers \/ hashDiffers)
           /\ (pc = "save_date") <=> update_detected
           /\ hasDate <=> dateDiffers
           /\ hasContent <=> hashDiffers
           /\ Len(messages) = (IF dateDiffers THEN 1 ELSE 0) + (IF hashDiffers THEN 1 ELSE 0)

\* C4 witness: a date-only change: the fingerprints agree, the dates differ,
\* and the report holds the date message alone.
C4_DateOnlyChange ==
    /\ pc = "save_date"
    /\ update_detected
    /\ prev_hash = Some(current_hash)
    /\ prev_date # None /\ prev_date # latest_update_date
    /\ Len(messages) = 1 /\ messages[1].kind = "date"

\* C5: a file differs from what the run found, or a notification has been
\* attempted, only in a run that detected a change; runs that end on a fetch
\* failure, an empty dataset or "no changes" leave the files and send nothing.
C5_WritesOnlyOnChange ==
    /\ (files # filesAtStart \/ notified # "none") => update_detected
    /\ (pc = "done" /\ outcome \in {"network_error", "empty", "no_change"}) =>
           (files = filesAtStart /\ notified = "none")

\* C5 witness: a run over existing state files has ended with no change.
C5_NoChangeRunDone ==
    /\ pc = "done" /\ outcome = "no_change"
    /\ dateFile # None /\ hashFile # None /\ csvFile # None
    /\ files = filesAtStart /\ notified = "none"

\* C6: whenever a notification has been attempted, delivered or failed, the
\* three files already hold the date, dataset and fingerprint of the run
\* that attempted it.
C6_SavedBeforeNotify ==
    notified # "none" =>
        update_detected /\ FilesReflect(latest_update_date, combined_df)

\* C6 witness: the alert failed in a run that replaced older state files.
C6_NotifyFailedAfterSave ==
    /\ pc = "done" /\ notified = "failed" /\ outcome = "notify_error"
    /\ files # filesAtStart /\ filesAtStart[2] # None
    /\ FilesReflect(latest_update_date, combined_df)

\* C7: a run on a page without a "Last update:" stamp never fails because
\* the date is absent.
C7_MissingDateNeverFails ==
    (pc = "done" /\ fetched /\ soup.stamp = None) => outcome # "save_error"

\* C8: for the dataset of this run and the dataset a previous run saved, the
\* fingerprints differ exactly when the serialized contents (the text of the
\* dataset file) differ.
C8_FingerprintIffContent ==
    (pc = "compare" /\ hashFile # None /\ csvFile # None) =>
        ((current_hash # hashFile[1]) <=> (to_csv(combined_df) # csvFile[1]))

\* Data rows that the parseable tables before table i contribute.
RECURSIVE rows_before(_, _)
rows_before(tables, i) ==
    IF i <= 1 THEN 0
    ELSE rows_before(tables, i - 1) +
         (IF parse_fails(tables[i - 1]) THEN 0 ELSE Len(tables[i - 1].rows) - 1)

\* C9: extraction never aborts the run on a table that fails to parse, and
\* the combined dataset is the rows of the parseable tables, first row
\* dropped, in table order and row order, each with its table's label.
C9_SkipsMalformedTables ==
    (pc = "load" \/ (pc = "done" /\ outcome = "empty")) =>
        LET tables == soup.tables IN
        /\ Len(combined_df) = rows_before(tables, Len(tables) + 1)
        /\ \A i \in 1..Len(tables) :
              ~parse_fails(tables[i]) =>
                  \A k \in 2..Len(tables[i].rows) :
                      LET row == combined_df[rows_before(tables, i) + k - 1] IN
                      /\ row.cells = tables[i].rows[k]
                      /\ row.Level = table_title(tables, i)

\* C9 witness: three tables, the second fails to parse, the first and the
\* third contribute their data rows.
C9_MiddleTableMalformed ==
    /\ pc = "load"
    /\ Len(soup.tables) = 3
    /\ ~parse_fails(soup.tables[1]) /\ parse_fails(soup.tables[2]) /\ ~parse_fails(soup.tables[3])
    /\ Len(soup.tables[1].rows) > 1 /\ Len(soup.tables[2].rows) > 1 /\ Len(soup.tables[3].rows) > 1
    /\ Len(combined_df) = Len(soup.tables[1].rows) + Len(soup.tables[3].rows) - 2

\* C10: between runs, the date file is absent or holds a date that
\* load_previous_state parses, so the next run can load its state.
C10_DateFileAlwaysLoads ==
    pc = "idle" => ~load_previous_state(dateFile, hashFile).raises

====
